---- MODULE Spec2Model ----
(***************************************************************************)
(* Model of top_cache.py: the mint-delay cache layer (set / get) and the   *)
(* top_cache decorator's func_wrapper, on top of an external key-value     *)
(* store with a physical timeout (django.core.cache).                      *)
(*                                                                         *)
(* Time is a discrete clock `now`.  A stored entry is the packed tuple     *)
(* (value, refresh_time, refreshed) of set(), together with the physical   *)
(* timeout handed to cache.set and the instant at which the store drops    *)
(* it.  Values are the naturals 0..MaxValue; 0 is the falsy value of the   *)
(* wrapped computation.  None is the result "no value".  The value None    *)
(* itself is not among the values the computation returns in this model.   *)
(*                                                                         *)
(* Specifications: Spec (sequential callers, store evicting at the         *)
(* physical timeout), ConcSpec (interleaved func_wrapper calls), LazySpec  *)
(* (store keeping entries past their timeout), FailSpec (store calls that  *)
(* raise), AbandonSpec (no put after logical expiry, clock fair) and       *)
(* KeySpec (the cache key built by func_wrapper for two calls).            *)
(***************************************************************************)
EXTENDS Integers, FiniteSets, Sequences, TLC

\* ---- bounds -------------------------------------------------------------
MINT_DELAY == 2
MaxTime == 9
MaxTtl == 2
MaxValue == 1
NumKeys == 1
NumProcs == 2
MaxConcTime == 5

\* timeout the decorator is configured with (top_cache(timeout=...))
WrapTimeout == 1

Keys == 1..NumKeys
Values == 0..MaxValue
Ttls == 0..MaxTtl
Procs == 1..NumProcs

\* ---- results and entries --------------------------------------------------
None == -1
NoTime == None

NoEntry == [present |-> FALSE]

Truthy(x) == x # None /\ x # 0

VARIABLES now, store, lastPut, staleAt, misses, lastOp, pc, lkey, packed, rtn,
          sig, ckey

vars == <<now, store, lastPut, staleAt, misses, lastOp, pc, lkey, packed, rtn,
          sig, ckey>>

\* ---- set ----------------------------------------------------------------
refresh_time_NoTimeout(t, timeout) == t

refresh_time(t, timeout) == t + timeout

mint_timeout_NoMargin(timeout) == timeout

mint_timeout_Double(timeout) == timeout + 2 * MINT_DELAY

mint_timeout(timeout) == timeout + MINT_DELAY

packed_value(value, timeout, refreshed, t) ==
    [present      |-> TRUE,
     value        |-> value,
     refresh_time |-> refresh_time(t, timeout),
     refreshed    |-> refreshed,
     mint_timeout |-> mint_timeout(timeout),
     expires      |-> t + mint_timeout(timeout)]

set(st, cache_key, value, timeout, refreshed, t) ==
    [st EXCEPT ![cache_key] = packed_value(value, timeout, refreshed, t)]

\* ---- get ----------------------------------------------------------------
cache_get(st, cache_key) == st[cache_key]

IsStale_AtExpiry(e, t) == (t >= e.refresh_time) /\ ~e.refreshed

IsStale(e, t) == (t > e.refresh_time) /\ ~e.refreshed

get_ret_NoneWhenRefreshed(e, t) ==
    IF ~e.present THEN None
    ELSE IF IsStale(e, t) \/ e.refreshed THEN None
    ELSE e.value

get_ret(e, t) ==
    IF ~e.present THEN None
    ELSE IF IsStale(e, t) THEN None
    ELSE e.value

placeholder_timeout_Zero == MINT_DELAY - MINT_DELAY

placeholder_timeout == MINT_DELAY

get_store_KeepFlag(st, cache_key, e, t) ==
    IF e.present /\ IsStale(e, t)
    THEN set(st, cache_key, e.value, placeholder_timeout, FALSE, t)
    ELSE st

get_store_RefreshAgain(st, cache_key, e, t) ==
    IF e.present /\ t > e.refresh_time
    THEN set(st, cache_key, e.value, placeholder_timeout, TRUE, t)
    ELSE st

get_store(st, cache_key, e, t) ==
    IF e.present /\ IsStale(e, t)
    THEN set(st, cache_key, e.value, placeholder_timeout, TRUE, t)
    ELSE st

\* ---- store failures -------------------------------------------------------
\* outcome of an operation in which a store call raised StoreUnavailable
Raised == None - 1

\* set() when cache.set may raise: a failed cache.set writes nothing
set_outcome(st, cache_key, value, timeout, refreshed, t, fails) ==
    IF fails
    THEN [ret |-> Raised, st |-> st]
    ELSE [ret |-> None, st |-> set(st, cache_key, value, timeout, refreshed, t)]

get_outcome_Swallow(st, cache_key, t, f) ==
    IF f = "get" THEN [ret |-> Raised, st |-> st, fault |-> "get"]
    ELSE LET e == cache_get(st, cache_key)
         IN  IF e.present /\ IsStale(e, t)
             THEN LET w == set_outcome(st, cache_key, e.value, placeholder_timeout,
                                       TRUE, t, f = "reput")
                  IN  [ret |-> None, st |-> w.st,
                       fault |-> IF w.ret = Raised THEN "reput" ELSE "none"]
             ELSE [ret |-> get_ret(e, t), st |-> st, fault |-> "none"]

\* get() when cache.get (f = "get") or the cache.set of its re-put
\* (f = "reput") raises: nothing catches the exception
get_outcome(st, cache_key, t, f) ==
    IF f = "get" THEN [ret |-> Raised, st |-> st, fault |-> "get"]
    ELSE LET e == cache_get(st, cache_key)
         IN  IF e.present /\ IsStale(e, t)
             THEN LET w == set_outcome(st, cache_key, e.value, placeholder_timeout,
                                       TRUE, t, f = "reput")
                  IN  IF w.ret = Raised
                      THEN [ret |-> Raised, st |-> w.st, fault |-> "reput"]
                      ELSE [ret |-> None, st |-> w.st, fault |-> "none"]
             ELSE [ret |-> get_ret(e, t), st |-> st, fault |-> "none"]

\* ---- func_wrapper -------------------------------------------------------
Hit(r) == Truthy(r)

\* ---- external store: eviction at the physical timeout -------------------
\* An entry stored at t with physical timeout d is held at every time < t + d
\* and dropped at t + d.
Expire(st, t) ==
    [k \in Keys |-> IF st[k].present /\ st[k].expires <= t THEN NoEntry ELSE st[k]]

\* ---- bookkeeping of the history the properties refer to -----------------
NoPut == [set |-> FALSE]

EntryKind(e) ==
    IF ~e.present THEN "nothing" ELSE IF e.refreshed THEN "placeholder" ELSE "fresh"

NotePut(k, v, ttl, old) ==
    [lastPut EXCEPT ![k] = [set |-> TRUE, v |-> v, t0 |-> now, ttl |-> ttl,
                            over |-> EntryKind(old)]]

\* ---- func_wrapper: the cache key of a call ----------------------------------
\* Strings are sequences of one-character strings.  An argument value is an
\* int (n), a str (s) or an instance of a class (class name s, identity n).
MaxArgs == 2

IntVal(n) == [t |-> "int", n |-> n, s |-> <<>>]
StrVal(s) == [t |-> "str", n |-> 0, s |-> s]
ObjVal(cls, id) == [t |-> "obj", n |-> id, s |-> cls]

Digit(d) == <<"0", "1", "2", "3", "4", "5", "6", "7", "8", "9">>[d + 1]

RECURSIVE Decimal(_)
Decimal(n) == IF n < 10 THEN <<Digit(n)>> ELSE Decimal(n \div 10) \o <<Digit(n % 10)>>

\* '{0}'.format(arg): str() of an int, of a str, and the default repr of an
\* instance, which names its class and its identity
str_of(v) ==
    IF v.t = "int" THEN Decimal(v.n)
    ELSE IF v.t = "str" THEN v.s
    ELSE <<"<">> \o v.s \o <<"@">> \o Decimal(v.n) \o <<">">>

\* args[0].__class__.__name__
class_name(v) ==
    IF v.t = "int" THEN <<"i", "n", "t">>
    ELSE IF v.t = "str" THEN <<"s", "t", "r">>
    ELSE v.s

\* '{0}_{1}'.format(a, b)
format2(a, b) == a \o <<"_">> \o b

\* '{0}_{1}={2}'.format(a, k, v)
format3(a, k, v) == a \o <<"_">> \o k \o <<"=">> \o v

is_method_call(args, decorates_method) == Len(args) > 0 /\ decorates_method

cache_key_args_KeepSelf(args, decorates_method) == args

cache_key_args(args, decorates_method) ==
    IF is_method_call(args, decorates_method) THEN Tail(args) ELSE args

cache_key_head(name, args, decorates_method) ==
    IF is_method_call(args, decorates_method)
    THEN format2(class_name(args[1]), name)
    ELSE name

RECURSIVE add_args(_, _)
add_args(key, args) ==
    IF args = <<>> THEN key
    ELSE add_args(format2(key, str_of(Head(args))), Tail(args))

RECURSIVE add_kwargs(_, _)
add_kwargs(key, kws) ==
    IF kws = <<>> THEN key
    ELSE add_kwargs(format3(key, Head(kws)[1], str_of(Head(kws)[2])), Tail(kws))

\* the string handed to hashlib.md5; the digest itself is not modelled
cache_key(c) ==
    add_kwargs(add_args(cache_key_head(c.name, c.args, c.dm),
                        cache_key_args(c.args, c.dm)),
               c.kwargs)

\* the call signatures of the model
Names == {<<"f">>}

Foo == <<"F", "o", "o">>

Instances == {ObjVal(Foo, 1), ObjVal(Foo, 2)}

PlainVals == {IntVal(1), IntVal(2), StrVal(<<"1">>), StrVal(<<"1", "_", "2">>)}

RECURSIVE SeqsUpTo(_, _)
SeqsUpTo(S, n) ==
    IF n = 0 THEN {<<>>}
    ELSE SeqsUpTo(S, n - 1) \cup {<<x>> \o q : x \in S, q \in {r \in SeqsUpTo(S, n - 1) : Len(r) = n - 1}}

ArgLists ==
    {self \o rest : self \in {<<>>} \cup {<<o>> : o \in Instances},
                    rest \in SeqsUpTo(PlainVals, MaxArgs)}

KwargLists == {<<>>, << <<<<"k">>, IntVal(1)>> >>}

Sigs == [name : Names, dm : BOOLEAN, args : ArgLists, kwargs : KwargLists]

\* no call signature under derivation, no key derived
NoSigs == <<>>

NoKeys == <<>>

NoKey == <<>>

IdleOp == [op |-> "none", key |-> 0, time |-> 0, pre |-> NoEntry, got |-> None,
           ret |-> None, invoked |-> FALSE, wrote |-> FALSE, writes |-> 0,
           fault |-> "none"]

InitStore ==
    /\ now = 0
    /\ store = [k \in Keys |-> NoEntry]
    /\ lastPut = [k \in Keys |-> NoPut]
    /\ staleAt = [k \in Keys |-> NoTime]
    /\ misses = [k \in Keys |-> 0]
    /\ lastOp = IdleOp
    /\ pc = [p \in Procs |-> "idle"]
    /\ lkey = [p \in Procs |-> 0]
    /\ packed = [p \in Procs |-> NoEntry]
    /\ rtn = [p \in Procs |-> None]

Init ==
    /\ InitStore
    /\ sig = NoSigs
    /\ ckey = NoKeys

\* ---- sequential callers -------------------------------------------------
\* set(cache_key, value, timeout) called directly by a caller
Put(k, v, ttl) ==
    /\ store' = set(store, k, v, ttl, FALSE, now)
    /\ lastPut' = NotePut(k, v, ttl, store[k])
    /\ staleAt' = [staleAt EXCEPT ![k] = NoTime]
    /\ misses' = [misses EXCEPT ![k] = 0]
    /\ lastOp' = [op |-> "put", key |-> k, time |-> now, pre |-> store[k],
                  got |-> None, ret |-> None, invoked |-> FALSE, wrote |-> TRUE,
                  writes |-> 1, fault |-> "none"]
    /\ UNCHANGED <<now, pc, lkey, packed, rtn, sig, ckey>>

\* get(cache_key) called directly by a caller
Fetch(k) ==
    LET e == cache_get(store, k)
        detected == e.present /\ IsStale(e, now)
    IN  /\ store' = get_store(store, k, e, now)
        /\ staleAt' = IF detected THEN [staleAt EXCEPT ![k] = now] ELSE staleAt
        /\ misses' = IF e.present /\ get_ret(e, now) = None
                     THEN [misses EXCEPT ![k] = @ + 1] ELSE misses
        /\ lastOp' = [op |-> "fetch", key |-> k, time |-> now, pre |-> e,
                      got |-> get_ret(e, now),
                      ret |-> get_ret(e, now), invoked |-> FALSE,
                      wrote |-> (get_store(store, k, e, now) # store),
                      writes |-> IF detected THEN 1 ELSE 0, fault |-> "none"]
        /\ UNCHANGED <<now, lastPut, pc, lkey, packed, rtn, sig, ckey>>

\* one invocation of func_wrapper; r is what the wrapped computation would return
Call(k, r) ==
    LET e == cache_get(store, k)
        got == get_ret(e, now)
        st1 == get_store(store, k, e, now)
    IN  IF Hit(got)
        THEN /\ store' = st1
             /\ lastOp' = [op |-> "call", key |-> k, time |-> now, pre |-> e,
                           got |-> got,
                           ret |-> got, invoked |-> FALSE, wrote |-> (st1 # store),
                           writes |-> 0, fault |-> "none"]
             /\ UNCHANGED <<now, lastPut, staleAt, misses, pc, lkey, packed, rtn, sig, ckey>>
        ELSE /\ store' = set(st1, k, r, WrapTimeout, FALSE, now)
             /\ lastPut' = NotePut(k, r, WrapTimeout, st1[k])
             /\ staleAt' = [staleAt EXCEPT ![k] = NoTime]
             /\ misses' = [misses EXCEPT ![k] = 0]
             /\ lastOp' = [op |-> "call", key |-> k, time |-> now, pre |-> e,
                           got |-> got,
                           ret |-> r, invoked |-> TRUE, wrote |-> TRUE,
                           writes |-> IF st1 # store THEN 2 ELSE 1,
                           fault |-> "none"]
             /\ UNCHANGED <<now, pc, lkey, packed, rtn, sig, ckey>>

\* the clock advances; the store drops what has reached its physical timeout
Tick ==
    /\ now < MaxTime
    /\ now' = now + 1
    /\ store' = Expire(store, now + 1)
    /\ lastOp' = IdleOp
    /\ UNCHANGED <<lastPut, staleAt, misses, pc, lkey, packed, rtn, sig, ckey>>

Next ==
    \/ \E k \in Keys, v \in Values, ttl \in Ttls : Put(k, v, ttl)
    \/ \E k \in Keys : Fetch(k)
    \/ \E k \in Keys, r \in Values : Call(k, r)
    \/ Tick

Spec == Init /\ [][Next]_vars

\* ---- concurrent callers of func_wrapper ----------------------------------
\* cache.get inside get(): the caller reads the packed value into a local
CRead(p, k) ==
    /\ pc[p] = "idle"
    /\ packed' = [packed EXCEPT ![p] = cache_get(store, k)]
    /\ lkey' = [lkey EXCEPT ![p] = k]
    /\ pc' = [pc EXCEPT ![p] = "read"]
    /\ UNCHANGED <<now, store, lastPut, staleAt, misses, lastOp, rtn, sig, ckey>>

\* rest of get() on the local packed value, then `if rtn: return rtn`
CCheck(p) ==
    LET e == packed[p]
        k == lkey[p]
        got == get_ret(e, now)
        detected == e.present /\ IsStale(e, now)
    IN  /\ pc[p] = "read"
        /\ store' = get_store(store, k, e, now)
        /\ staleAt' = IF detected THEN [staleAt EXCEPT ![k] = now] ELSE staleAt
        /\ misses' = IF e.present /\ got = None
                     THEN [misses EXCEPT ![k] = @ + 1] ELSE misses
        /\ packed' = [packed EXCEPT ![p] = NoEntry]
        /\ IF Hit(got)
           THEN /\ pc' = [pc EXCEPT ![p] = "idle"]
                /\ lkey' = [lkey EXCEPT ![p] = 0]
           ELSE /\ pc' = [pc EXCEPT ![p] = "miss"]
                /\ lkey' = lkey
        /\ UNCHANGED <<now, lastPut, lastOp, rtn, sig, ckey>>

\* rtn = func(*args, **kwargs)
CCompute(p, r) ==
    /\ pc[p] = "miss"
    /\ rtn' = [rtn EXCEPT ![p] = r]
    /\ pc' = [pc EXCEPT ![p] = "computed"]
    /\ UNCHANGED <<now, store, lastPut, staleAt, misses, lastOp, lkey, packed, sig, ckey>>

\* set(cache_key, rtn, timeout=timeout); return rtn
CSet(p) ==
    LET k == lkey[p]
    IN  /\ pc[p] = "computed"
        /\ store' = set(store, k, rtn[p], WrapTimeout, FALSE, now)
        /\ lastPut' = NotePut(k, rtn[p], WrapTimeout, store[k])
        /\ staleAt' = [staleAt EXCEPT ![k] = NoTime]
        /\ misses' = [misses EXCEPT ![k] = 0]
        /\ pc' = [pc EXCEPT ![p] = "idle"]
        /\ lkey' = [lkey EXCEPT ![p] = 0]
        /\ rtn' = [rtn EXCEPT ![p] = None]
        /\ UNCHANGED <<now, lastOp, packed, sig, ckey>>

CTick ==
    /\ now < MaxConcTime
    /\ now' = now + 1
    /\ store' = Expire(store, now + 1)
    /\ UNCHANGED <<lastPut, staleAt, misses, lastOp, pc, lkey, packed, rtn, sig, ckey>>

ConcNext ==
    \/ \E p \in Procs, k \in Keys : CRead(p, k)
    \/ \E p \in Procs : CCheck(p)
    \/ \E p \in Procs, r \in Values : CCompute(p, r)
    \/ \E p \in Procs : CSet(p)
    \/ CTick

ConcSpec == Init /\ [][ConcNext]_vars

\* ---- a store that keeps entries past their physical timeout --------------
\* the clock advances; nothing is dropped
LazyTick ==
    /\ now < MaxTime
    /\ now' = now + 1
    /\ lastOp' = IdleOp
    /\ UNCHANGED <<store, lastPut, staleAt, misses, pc, lkey, packed, rtn, sig, ckey>>

\* the store drops an entry at some time, no earlier than its physical timeout
Evict(k) ==
    /\ store[k].present
    /\ store[k].expires <= now
    /\ store' = [store EXCEPT ![k] = NoEntry]
    /\ lastOp' = IdleOp
    /\ UNCHANGED <<now, lastPut, staleAt, misses, pc, lkey, packed, rtn, sig, ckey>>

LazyNext ==
    \/ \E k \in Keys, v \in Values, ttl \in Ttls : Put(k, v, ttl)
    \/ \E k \in Keys : Fetch(k)
    \/ \E k \in Keys, r \in Values : Call(k, r)
    \/ LazyTick
    \/ \E k \in Keys : Evict(k)

LazySpec == Init /\ [][LazyNext]_vars

\* ---- callers whose store calls fail ---------------------------------------
\* set(cache_key, value, timeout) whose cache.set raises
FPut(k, v, ttl) ==
    LET w == set_outcome(store, k, v, ttl, FALSE, now, TRUE)
    IN  /\ store' = w.st
        /\ lastOp' = [op |-> "put", key |-> k, time |-> now, pre |-> store[k],
                      got |-> None, ret |-> w.ret, invoked |-> FALSE,
                      wrote |-> (w.st # store), writes |-> 0, fault |-> "set"]
        /\ UNCHANGED <<now, lastPut, staleAt, misses, pc, lkey, packed, rtn, sig, ckey>>

\* get(cache_key) in which cache.get or the re-put's cache.set raises
FFetch(k, f) ==
    LET o == get_outcome(store, k, now, f)
    IN  /\ o.fault # "none"
        /\ store' = o.st
        /\ lastOp' = [op |-> "fetch", key |-> k, time |-> now, pre |-> store[k],
                      got |-> o.ret, ret |-> o.ret, invoked |-> FALSE,
                      wrote |-> (o.st # store), writes |-> 0, fault |-> o.fault]
        /\ UNCHANGED <<now, lastPut, staleAt, misses, pc, lkey, packed, rtn, sig, ckey>>

\* func_wrapper in which cache.get, the re-put's cache.set or the final
\* cache.set (f = "set") raises
FCall(k, r, f) ==
    LET o == get_outcome(store, k, now, f)
        reput == o.st # store
    IN  \/ /\ o.fault # "none"
           /\ store' = o.st
           /\ lastOp' = [op |-> "call", key |-> k, time |-> now, pre |-> store[k],
                         got |-> o.ret, ret |-> o.ret, invoked |-> FALSE,
                         wrote |-> reput, writes |-> 0, fault |-> o.fault]
           /\ UNCHANGED <<now, lastPut, staleAt, misses, pc, lkey, packed, rtn,
                          sig, ckey>>
        \/ /\ o.fault = "none" /\ ~Hit(o.ret) /\ f = "set"
           /\ LET w == set_outcome(o.st, k, r, WrapTimeout, FALSE, now, TRUE)
              IN  /\ store' = w.st
                  /\ lastOp' = [op |-> "call", key |-> k, time |-> now,
                                pre |-> store[k], got |-> o.ret, ret |-> w.ret,
                                invoked |-> TRUE, wrote |-> reput,
                                writes |-> IF reput THEN 1 ELSE 0, fault |-> "set"]
           /\ staleAt' = IF reput THEN [staleAt EXCEPT ![k] = now] ELSE staleAt
           /\ misses' = IF store[k].present /\ o.ret = None
                        THEN [misses EXCEPT ![k] = @ + 1] ELSE misses
           /\ UNCHANGED <<now, lastPut, pc, lkey, packed, rtn, sig, ckey>>

FailNext ==
    \/ Next
    \/ \E k \in Keys, v \in Values, ttl \in Ttls : FPut(k, v, ttl)
    \/ \E k \in Keys, f \in {"get", "reput"} : FFetch(k, f)
    \/ \E k \in Keys, r \in Values, f \in {"get", "reput", "set"} : FCall(k, r, f)

FailSpec == Init /\ [][FailNext]_vars

\* ---- an abandoned refresh -------------------------------------------------
\* a caller's put, as long as the key's latest put is not yet logically stale
\* (afterwards nobody puts again); late enough puts are left out so that the
\* clock can run past the entry's life
APut(k, v, ttl) ==
    /\ lastPut[k].set => now <= lastPut[k].t0 + lastPut[k].ttl
    /\ now + ttl + 3 * MINT_DELAY <= MaxTime
    /\ Put(k, v, ttl)

AbandonNext ==
    \/ \E k \in Keys, v \in Values, ttl \in Ttls : APut(k, v, ttl)
    \/ \E k \in Keys : Fetch(k)
    \/ Tick

\* time keeps advancing
AbandonSpec == Init /\ [][AbandonNext]_vars /\ WF_vars(Tick)

\* ---- key derivation for two calls ------------------------------------------
KeyInit ==
    /\ InitStore
    /\ sig \in Sigs \X Sigs
    /\ ckey = <<NoKey, NoKey>>

\* lines 74-88 of func_wrapper for call i
Derive(i) ==
    /\ ckey[i] = NoKey
    /\ ckey' = [ckey EXCEPT ![i] = cache_key(sig[i])]
    /\ UNCHANGED <<now, store, lastPut, staleAt, misses, lastOp, pc, lkey, packed,
                   rtn, sig>>

KeyNext == \E i \in 1..2 : Derive(i)

KeySpec == KeyInit /\ [][KeyNext]_vars

\* ---- properties of the sequential callers --------------------------------

\* C1: after put(key, v, ttl) with ttl > 0, whatever it overwrote, every
\* fetch(key) at a time now <= put_time + ttl with no later put returns v.
C1_FreshFetchReturnsPut ==
    \A k \in Keys :
        (/\ lastOp.op = "fetch" /\ lastOp.key = k
         /\ lastPut[k].set /\ lastPut[k].ttl > 0
         /\ lastOp.time <= lastPut[k].t0 + lastPut[k].ttl)
        => lastOp.ret = lastPut[k].v

C1_Witness ==
    \E k \in Keys :
        /\ lastOp.op = "fetch" /\ lastOp.key = k
        /\ lastPut[k].set /\ lastPut[k].ttl > 0
        /\ lastPut[k].over = "placeholder"
        /\ lastOp.time = lastPut[k].t0 + lastPut[k].ttl
        /\ lastOp.ret = lastPut[k].v

\* C3: fetch(key) on a present entry with now > logical_expiry and
\* refreshed = false returns absent and leaves (same value,
\* logical_expiry = now + mint_delay, refreshed = true) in the store.
C3_StaleFetchFlags ==
    (/\ lastOp.op = "fetch" /\ lastOp.pre.present
     /\ lastOp.time > lastOp.pre.refresh_time /\ ~lastOp.pre.refreshed)
    => /\ lastOp.ret = None
       /\ store[lastOp.key].present
       /\ store[lastOp.key].value = lastOp.pre.value
       /\ store[lastOp.key].refresh_time = lastOp.time + MINT_DELAY
       /\ store[lastOp.key].refreshed

C3_Witness ==
    /\ lastOp.op = "fetch" /\ lastOp.pre.present
    /\ lastOp.time > lastOp.pre.refresh_time /\ ~lastOp.pre.refreshed
    /\ lastOp.ret = None
    /\ store[lastOp.key].refreshed

\* C4 as stated: fetch(key) on a present entry with refreshed = true returns
\* absent (so does every fetch within mint_delay of the first stale fetch).
C4_RefreshedFetchAbsent ==
    (lastOp.op = "fetch" /\ lastOp.pre.present /\ lastOp.pre.refreshed)
    => lastOp.ret = None

\* C4 amended: fetch(key) on a present entry with refreshed = true returns
\* the entry's value and writes nothing; after put(key, v, ttl), a first
\* stale fetch at t1 and no later put, every later fetch up to t1 + mint_delay
\* returns v.
C4_RefreshedFetchServesStale ==
    /\ (lastOp.op = "fetch" /\ lastOp.pre.present /\ lastOp.pre.refreshed)
       => (lastOp.ret = lastOp.pre.value /\ ~lastOp.wrote)
    /\ \A k \in Keys :
        (/\ lastOp.op = "fetch" /\ lastOp.key = k
         /\ lastPut[k].set /\ staleAt[k] # NoTime
         /\ ~(lastOp.pre.present /\ ~lastOp.pre.refreshed)
         /\ lastOp.time <= staleAt[k] + MINT_DELAY)
        => lastOp.ret = lastPut[k].v

C4_Witness ==
    \E k \in Keys :
        /\ lastOp.op = "fetch" /\ lastOp.key = k
        /\ lastOp.pre.present /\ lastOp.pre.refreshed
        /\ staleAt[k] # NoTime /\ lastOp.time = staleAt[k] + MINT_DELAY
        /\ lastOp.ret = lastPut[k].v

\* C5 as stated: no fetch(key) later than t0 + ttl + mint_delay returns the
\* value v that the latest put(key, v, ttl) wrote at t0.
C5_StalenessBoundedByMintDelay ==
    \A k \in Keys :
        (/\ lastOp.op = "fetch" /\ lastOp.key = k /\ lastPut[k].set
         /\ lastOp.time > lastPut[k].t0 + lastPut[k].ttl + MINT_DELAY)
        => lastOp.ret # lastPut[k].v

\* C5 amended: no fetch(key) at or after t0 + ttl + 3 * mint_delay returns v.
C5_StalenessBoundedByThreeMintDelays ==
    \A k \in Keys :
        (/\ lastOp.op = "fetch" /\ lastOp.key = k /\ lastPut[k].set
         /\ lastOp.time >= lastPut[k].t0 + lastPut[k].ttl + 3 * MINT_DELAY)
        => lastOp.ret = None

C5_Witness ==
    \E k \in Keys :
        /\ lastOp.op = "fetch" /\ lastOp.key = k /\ lastPut[k].set
        /\ staleAt[k] = lastPut[k].t0 + lastPut[k].ttl + MINT_DELAY - 1
        /\ lastOp.time >= lastPut[k].t0 + lastPut[k].ttl + 3 * MINT_DELAY
        /\ lastOp.ret = None

\* C6: every stored entry with refreshed = true was stored with a physical
\* TTL equal to mint_delay.
C6_PlaceholderPhysicalTtlIsMintDelay ==
    \A k \in Keys :
        (store[k].present /\ store[k].refreshed)
        => store[k].mint_timeout = MINT_DELAY

C8_PlaceholderSurvivesMintDelay ==
    \A k \in Keys :
        (staleAt[k] # NoTime /\ now <= staleAt[k] + MINT_DELAY)
        => /\ store[k].present
           /\ store[k].refreshed
           /\ store[k].value = lastPut[k].v

C8_Witness ==
    \E k \in Keys :
        /\ staleAt[k] # NoTime /\ now = staleAt[k] + MINT_DELAY
        /\ store[k].present /\ store[k].refreshed

\* C9: every stored entry has physical_ttl = logical_ttl + mint_delay, so its
\* logical_expiry is no later than its eviction time, which is exactly
\* mint_delay after it.
C9_PhysicalIsLogicalPlusMintDelay ==
    \A k \in Keys :
        store[k].present
        => /\ store[k].mint_timeout
                = (store[k].refresh_time - (store[k].expires - store[k].mint_timeout))
                  + MINT_DELAY
           /\ store[k].refresh_time <= store[k].expires
           /\ store[k].expires = store[k].refresh_time + MINT_DELAY

C9_Witness ==
    \E k \in Keys :
        /\ store[k].present /\ store[k].refreshed
        /\ store[k].expires = store[k].refresh_time + MINT_DELAY

\* C10: an invocation of the wrapped operation made while the store holds a
\* logically fresh entry returns the stored value (falsy values included),
\* does not invoke the computation and does not write to the store.
C10_HitReturnsStoredValue ==
    (/\ lastOp.op = "call" /\ lastOp.pre.present
     /\ lastOp.time <= lastOp.pre.refresh_time)
    => /\ lastOp.ret = lastOp.pre.value
       /\ ~lastOp.invoked
       /\ ~lastOp.wrote

\* C11: when fetch of the derived key yields absent, the wrapper invokes the
\* computation exactly once, stores its result under that key with
\* logical_ttl = the configured timeout and refreshed = false, and returns
\* exactly the computed result.
C11_MissComputesStoresReturns ==
    (lastOp.op = "call" /\ lastOp.got = None)
    => /\ lastOp.invoked
       /\ lastPut[lastOp.key].set
       /\ lastPut[lastOp.key].t0 = lastOp.time
       /\ lastOp.ret = lastPut[lastOp.key].v
       /\ store[lastOp.key].present
       /\ store[lastOp.key].value = lastOp.ret
       /\ store[lastOp.key].refresh_time = lastOp.time + WrapTimeout
       /\ ~store[lastOp.key].refreshed

C11_Witness ==
    /\ lastOp.op = "call" /\ lastOp.got = None
    /\ lastOp.pre.present
    /\ lastOp.invoked
    /\ lastOp.ret # lastOp.pre.value
    /\ store[lastOp.key].value = lastOp.ret

\* C12: an entry that the store still returns after its physical TTL has
\* elapsed is treated as absent: fetch(key) later than the entry's eviction
\* time returns absent, whether refreshed is false or true.
C12_RetainedEntryIsAbsent ==
    (/\ lastOp.op = "fetch" /\ lastOp.pre.present
     /\ lastOp.time > lastOp.pre.expires)
    => lastOp.ret = None

\* C13: a store failure during retrieve or store is the outcome of fetch,
\* put and the wrapping operation, never a value and never absent; when the
\* re-put of a stale refreshed = false entry fails, fetch ends in the error
\* and the stored entry is unchanged.
C13_StoreFailurePropagates ==
    /\ (lastOp.fault # "none") => (lastOp.ret = Raised)
    /\ (lastOp.op = "fetch" /\ lastOp.fault = "reput")
       => /\ lastOp.pre.present /\ ~lastOp.pre.refreshed
          /\ store[lastOp.key] = lastOp.pre
    /\ (lastOp.op = "call" /\ lastOp.fault \in {"get", "reput"}) => ~lastOp.invoked

C13_Witness ==
    /\ lastOp.op = "fetch" /\ lastOp.fault = "reput"
    /\ lastOp.pre.present /\ ~lastOp.pre.refreshed
    /\ lastOp.time > lastOp.pre.refresh_time
    /\ lastOp.ret = Raised
    /\ store[lastOp.key] = lastOp.pre

\* C15: fetch(key) writes to the store exactly when the entry is present,
\* now > logical_expiry and refreshed = false, and then exactly once (to that
\* key only); when the entry is absent, logically fresh or refreshed = true
\* it leaves every key's entry unchanged.
C15_FetchWritesOnlyWhenFirstStale ==
    [][(lastOp'.op = "fetch")
       => LET k == lastOp'.key
              e == store[k]
          IN  IF e.present /\ now > e.refresh_time /\ ~e.refreshed
              THEN /\ lastOp'.writes = 1
                   /\ store'[k] # store[k]
                   /\ \A k2 \in Keys \ {k} : store'[k2] = store[k2]
              ELSE /\ lastOp'.writes = 0
                   /\ store' = store]_vars

C15_Witness ==
    /\ lastOp.op = "fetch"
    /\ lastOp.pre.present /\ lastOp.pre.refreshed
    /\ lastOp.time > lastOp.pre.refresh_time
    /\ lastOp.writes = 0
    /\ store[lastOp.key] = lastOp.pre

\* C16: if no caller puts again once an entry is logically stale, the store
\* evicts at the physical TTL and time keeps advancing, then fetches write at
\* most one placeholder and eventually the store holds no entry for the key
\* for good, and every fetch from then on returns absent.
C16_AbandonedRefreshEnds ==
    /\ [](\A k \in Keys : lastPut[k].set => misses[k] <= 1)
    /\ \A k \in Keys :
        [](lastPut[k].set
           => <>[](/\ ~store[k].present
                   /\ (lastOp.op = "fetch" /\ lastOp.key = k) => lastOp.ret = None))

C16_Witness ==
    \E k \in Keys :
        /\ lastPut[k].set /\ staleAt[k] # NoTime /\ misses[k] = 1
        /\ ~store[k].present
        /\ lastOp.op = "fetch" /\ lastOp.key = k /\ lastOp.ret = None

\* ---- properties of the key derivation -------------------------------------
BothDerived == ckey[1] # NoKey /\ ckey[2] # NoKey

\* C17: two plain calls with distinct signatures (identifier, args, kwargs)
\* get distinct key strings.
C17_DistinctCallsDistinctKeys ==
    (/\ BothDerived
     /\ ~sig[1].dm /\ ~sig[2].dm
     /\ <<sig[1].name, sig[1].args, sig[1].kwargs>>
            # <<sig[2].name, sig[2].args, sig[2].kwargs>>)
    => ckey[1] # ckey[2]

\* C18: with decorates_method set, two calls on instances of one class with
\* the same remaining arguments get the same key whatever the instances; that
\* key differs from the key of the plain function call with the same
\* identifier and arguments.
C18_MethodKeyIgnoresInstance ==
    /\ (/\ BothDerived
        /\ sig[1].dm /\ sig[2].dm
        /\ sig[1].args # <<>> /\ sig[2].args # <<>>
        /\ sig[1].args[1].t = "obj" /\ sig[2].args[1].t = "obj"
        /\ sig[1].args[1].s = sig[2].args[1].s
        /\ sig[1].name = sig[2].name
        /\ Tail(sig[1].args) = Tail(sig[2].args)
        /\ sig[1].kwargs = sig[2].kwargs)
       => ckey[1] = ckey[2]
    /\ (/\ BothDerived
        /\ sig[1].dm /\ ~sig[2].dm
        /\ sig[1].args # <<>>
        /\ sig[1].name = sig[2].name
        /\ sig[2].args = Tail(sig[1].args)
        /\ sig[1].kwargs = sig[2].kwargs)
       => ckey[1] # ckey[2]

C18_Witness ==
    /\ BothDerived
    /\ sig[1].dm /\ sig[2].dm
    /\ sig[1].args = <<ObjVal(Foo, 1), IntVal(1), IntVal(2)>>
    /\ sig[2].args = <<ObjVal(Foo, 2), IntVal(1), IntVal(2)>>
    /\ sig[1].kwargs = <<>> /\ sig[2].kwargs = <<>>
    /\ ckey[1] = ckey[2]
    /\ ckey[1] = <<"F", "o", "o", "_", "f", "_", "1", "_", "2">>

\* ---- properties of the concurrent callers ---------------------------------

\* C2: between an entry's logical expiry and the next caller put, at most one
\* fetch that found the entry returns absent; every other one gets the value.
C2_OnlyOneCallerRecomputes ==
    \A k \in Keys : misses[k] <= 1

\* C14: the staleness-triggered re-put of a fetch never replaces an entry
\* that a caller's put (refreshed = false) stored after that fetch's read
\* step.
C14_RePutKeepsNewerPut ==
    [][\A p \in Procs :
        (pc[p] = "read" /\ pc'[p] # "read" /\ store' # store)
        => ~(/\ store[lkey[p]].present
             /\ ~store[lkey[p]].refreshed
             /\ store[lkey[p]] # packed[p])]_vars

====
